---- MODULE Spec2Model ----
(***************************************************************************)
(* A model of hoomd_organics/base/system.py: the System base class, its    *)
(* Pack and Lattice builders, and the topology post-processing steps       *)
(* (_remove_hydrogens, _scale_charges, set_target_box, the reference_values*)
(* setter, the force-field collection of __init__).                        *)
(*                                                                         *)
(* Numbers.  Python floats are modelled as exact numbers:                  *)
(*   - site masses are integers in units of 0.001 amu (1.008 amu = 1008);  *)
(*   - site charges are integers over a per-topology common denominator    *)
(*     cden (charge = site.charge / cden elementary charges);              *)
(*   - box lengths and densities are exact decimal rationals (see Q).      *)
(* Rounding error of IEEE arithmetic is therefore outside the model.       *)
(***************************************************************************)
EXTENDS Integers, Sequences, FiniteSets, TLC

VARIABLES
    pc,       \* position: "ready" then "done" around one call; "new", then
              \* "built" or "failed", then "called" in the life of a System
    raised,   \* the exception the call ended with, or "none"
    warned,   \* TRUE once warnings.warn was called
    self,     \* the attributes of the System (or Polymer) instance
    before,   \* the attributes when the call started (history variable)
    args,     \* the arguments of the call
    defaults  \* the dict objects made once as the default of base_units,
              \* one by the def of Pack.__init__, one by Lattice.__init__

vars == <<pc, raised, warned, self, before, args, defaults>>

\* base_units=dict() in the signatures of Pack.__init__ and Lattice.__init__
DefaultBaseUnits == [Pack |-> <<>>, Lattice |-> <<>>]

(***************************************************************************)
(* Bounds of the model.                                                    *)
(***************************************************************************)
MaxSites == 3

(***************************************************************************)
(* Small helpers.                                                          *)
(***************************************************************************)
Abs(x) == IF x < 0 THEN -x ELSE x

Min(S) == CHOOSE x \in S : \A y \in S : x <= y

RECURSIVE SumSeq(_)
SumSeq(s) == IF s = <<>> THEN 0 ELSE Head(s) + SumSeq(Tail(s))

RECURSIVE SetToSeq(_)
\* The elements of a finite set of integers in ascending order.
SetToSeq(S) == IF S = {} THEN <<>> ELSE <<Min(S)>> \o SetToSeq(S \ {Min(S)})

(***************************************************************************)
(* Exact decimal rationals.  [n, d, e, u] stands for                       *)
(* (n / d) * 10^e * AmuFactor^u, kept in normal form: d > 0 coprime to n   *)
(* and to 10, n not divisible by 10, neither divisible by AmuFactor (zero  *)
(* is [0, 1, 0, 0]), so that equal numbers are equal records.              *)
(***************************************************************************)
RECURSIVE GCD(_, _)
GCD(a, b) == IF b = 0 THEN Abs(a) ELSE GCD(b, a % b)

RECURSIVE Pow10(_)
Pow10(k) == IF k = 0 THEN 1 ELSE 10 * Pow10(k - 1)

RECURSIVE Tens(_)
\* How often 10 divides the non-zero integer a.
Tens(a) == IF a % 10 = 0 THEN 1 + Tens(a \div 10) ELSE 0

\* 1.66054e-24, the grams in one amu, is 2 * 83027 * 10^-29.  The factor 83027
\* is carried as a power (field u) instead of being multiplied out, so that
\* the mantissas stay small.
AmuFactor == 83027

RECURSIVE Canon(_, _, _, _)
\* n / d * 10^e * AmuFactor^u with the factors 2 and 5 of d moved into n and
\* e, the factors AmuFactor of n and d moved into u.
Canon(n, d, e, u) ==
    IF d % 2 = 0 THEN Canon(5 * n, d \div 2, e - 1, u)
    ELSE IF d % 5 = 0 THEN Canon(2 * n, d \div 5, e - 1, u)
    ELSE IF d % AmuFactor = 0 THEN Canon(n, d \div AmuFactor, e, u - 1)
    ELSE IF n % AmuFactor = 0 THEN Canon(n \div AmuFactor, d, e, u + 1)
    ELSE [n |-> n \div Pow10(Tens(Abs(n))), d |-> d,
          e |-> e + Tens(Abs(n)), u |-> u]

QU(n, d, e, u) ==
    IF n = 0 THEN [n |-> 0, d |-> 1, e |-> 0, u |-> 0]
    ELSE LET g == GCD(Abs(n), Abs(d))
             sign == IF d < 0 THEN -1 ELSE 1
         IN Canon(sign * (n \div g), Abs(d) \div g, e, u)

Q(n, d, e) == QU(n, d, e, 0)

QInt(k) == Q(k, 1, 0)

QMul(a, b) ==
    LET g1 == GCD(Abs(a.n), b.d)
        g2 == GCD(Abs(b.n), a.d)
    IN QU((a.n \div g1) * (b.n \div g2), (a.d \div g2) * (b.d \div g1),
          a.e + b.e, a.u + b.u)

QInv(a) == QU(a.d, a.n, -a.e, -a.u)

QDiv(a, b) == QMul(a, QInv(b))

\* a + b, for a and b of the same power of AmuFactor.
QAdd(a, b) ==
    LET e == IF a.e < b.e THEN a.e ELSE b.e
    IN QU(a.n * Pow10(a.e - e) * b.d + b.n * Pow10(b.e - e) * a.d,
          a.d * b.d, e, IF a.n = 0 THEN b.u ELSE a.u)

QNeg(a) == [a EXCEPT !.n = -a.n]

QSub(a, b) == QAdd(a, QNeg(b))

QLeq(a, b) == QSub(b, a).n >= 0

RECURSIVE QPow(_, _)
QPow(a, k) == IF k = 0 THEN QInt(1) ELSE QMul(a, QPow(a, k - 1))

QMax(S) == CHOOSE x \in S : \A y \in S : QLeq(y, x)

QMin(S) == CHOOSE x \in S : \A y \in S : QLeq(x, y)

(***************************************************************************)
(* Python values of the box code: None, or a float.  A float is the real   *)
(* rad^(1/deg): deg is 1 for a plain number, and `** (1 / k)` raises it,   *)
(* so that roots stay exact.                                               *)
(***************************************************************************)
NoneValue == [none |-> TRUE]

IsNone(v) == v = NoneValue

Float(q) == [deg |-> 1, rad |-> q]

\* v ** (1 / k)
Root(v, k) == [deg |-> v.deg * k, rad |-> v.rad]

\* v * c for a plain number c
Times(v, c) == [deg |-> v.deg, rad |-> QMul(v.rad, QPow(c, v.deg))]

\* Python truthiness of None or a float.
Truthy(v) == ~IsNone(v) /\ v.rad.n # 0

(***************************************************************************)
(* Topologies.  A site carries name, element (atomic number, 0 when the    *)
(* site has no element), mass and charge; bonds are unordered index pairs. *)
(***************************************************************************)
HydrogenMass == 1008

\* The kinds of site the inputs are drawn from: a hydrogen, a carbon, and a
\* site of hydrogen mass that carries no element.
SiteKinds ==
    { [element |-> 1, mass |-> HydrogenMass],
      [element |-> 6, mass |-> 12011],
      [element |-> 0, mass |-> HydrogenMass] }

SiteCharges == {-1, 1}

Pairs(n) == { {i, j} : i \in 1..n, j \in 1..n } \ { {i} : i \in 1..n }

\* The topology of n sites with kinds k, charges c and bonds b.
Topology(n, k, c, b) ==
    [sites |-> [i \in 1..n |->
                  [name |-> i, element |-> k[i].element,
                   mass |-> k[i].mass, charge |-> c[i]]],
     bonds |-> b, cden |-> 1]

n_sites(top) == Len(top.sites)

\* System.n_particles
n_particles(s) == n_sites(s.gmso_system)

\* The sum of the site masses (0.001 amu).
TotalMass(top) == SumSeq([i \in DOMAIN top.sites |-> top.sites[i].mass])

\* System.net_charge, as a numerator over top.cden.
net_charge(top) == SumSeq([i \in DOMAIN top.sites |-> top.sites[i].charge])

(***************************************************************************)
(* _remove_hydrogens.                                                      *)
(***************************************************************************)
\* gmso.external.to_parmed: sites become atoms, element becomes atomic_number.
to_parmed(top) ==
    [atoms |-> [i \in DOMAIN top.sites |->
                  [name |-> top.sites[i].name,
                   atomic_number |-> top.sites[i].element,
                   mass |-> top.sites[i].mass,
                   charge |-> top.sites[i].charge]],
     bonds |-> top.bonds, cden |-> top.cden]

\* gmso.external.from_parmed: atoms become sites again.
from_parmed(struc) ==
    [sites |-> [i \in DOMAIN struc.atoms |->
                  [name |-> struc.atoms[i].name,
                   element |-> struc.atoms[i].atomic_number,
                   mass |-> struc.atoms[i].mass,
                   charge |-> struc.atoms[i].charge]],
     bonds |-> struc.bonds, cden |-> struc.cden]

\* parmed Atom.bond_partners: the atoms bonded to atom i, sorted by index.
bond_partners(struc, i) ==
    SetToSeq({ j \in DOMAIN struc.atoms : {i, j} \in struc.bonds })

\* The list `hydrogens`: by element first, by mass when none has element 1.
ByElement(struc) == { i \in DOMAIN struc.atoms : struc.atoms[i].atomic_number = 1 }

ByMass(struc) == { i \in DOMAIN struc.atoms : struc.atoms[i].mass = HydrogenMass }

hydrogens(struc) ==
    IF ByElement(struc) # {} THEN ByElement(struc) ELSE ByMass(struc)

\* `h.atomic_number = 1` left out.
MarkHydrogenSkipped(atoms, h) == atoms

\* h.atomic_number = 1
MarkHydrogen(atoms, h) == [atoms EXCEPT ![h].atomic_number = 1]

\* One pass of the loop body `for h in hydrogens`, h the head of hs.  The
\* result is [ok, atoms]; ok is FALSE when bond_partners[0] raises IndexError.
RECURSIVE Absorb(_, _, _)
Absorb(atoms, bonds, hs) ==
    IF hs = <<>> THEN [ok |-> TRUE, atoms |-> atoms]
    ELSE LET h == Head(hs)
             marked == MarkHydrogen(atoms, h)
             bp == bond_partners([atoms |-> marked, bonds |-> bonds], h)
         IN IF bp = <<>> THEN [ok |-> FALSE, atoms |-> marked]
            ELSE LET bonded_atom == bp[1]
                     absorbed ==
                         [marked EXCEPT
                            ![bonded_atom].mass = @ + marked[h].mass,
                            ![bonded_atom].charge = @ + marked[h].charge]
                 IN Absorb(absorbed, bonds, Tail(hs))

\* The mask handed to strip: the atoms whose atomic_number is 1.
StripMask(atoms) == { i \in DOMAIN atoms : atoms[i].atomic_number = 1 }

\* parmed Structure.strip: drop the masked atoms and their bonds, renumber.
strip(struc, mask) ==
    LET kept == SetToSeq(DOMAIN struc.atoms \ mask)
        new(i) == CHOOSE k \in DOMAIN kept : kept[k] = i
    IN [atoms |-> [k \in DOMAIN kept |-> struc.atoms[kept[k]]],
        bonds |-> { {new(i) : i \in b} : b \in { c \in struc.bonds : c \cap mask = {} } },
        cden |-> struc.cden]

\* The whole of _remove_hydrogens on topology top:
\* [top: the new gmso_system, raised, warned].
_remove_hydrogens(top) ==
    LET parmed_struc == to_parmed(top)
        found == hydrogens(parmed_struc)
        loop == Absorb(parmed_struc.atoms, parmed_struc.bonds, SetToSeq(found))
        atoms == loop.atoms
    IN IF ~loop.ok
       THEN [top |-> top, raised |-> "IndexError", warned |-> FALSE]
       ELSE LET stripped ==
                    strip([parmed_struc EXCEPT !.atoms = atoms],
                          StripMask(atoms))
            IN [top |-> IF found # {} THEN from_parmed(stripped) ELSE top,
                raised |-> "none",
                warned |-> (found = {})]

RemoveHydrogens ==
    /\ UNCHANGED defaults
    /\ pc = "ready"
    /\ LET r == _remove_hydrogens(self.gmso_system)
       IN /\ self' = [self EXCEPT !.gmso_system = r.top]
          /\ raised' = r.raised
          /\ warned' = r.warned
    /\ before' = self
    /\ pc' = "done"
    /\ UNCHANGED args

InitHydrogens ==
    /\ defaults = DefaultBaseUnits
    /\ pc = "ready"
    /\ raised = "none"
    /\ warned = FALSE
    /\ \E n \in 1..MaxSites :
         \E k \in [1..n -> SiteKinds], c \in [1..n -> SiteCharges],
            b \in SUBSET Pairs(n) :
            self = [gmso_system |-> Topology(n, k, c, b)]
    /\ before = self
    /\ args = <<>>

NextHydrogens == RemoveHydrogens

SpecHydrogens == InitHydrogens /\ [][NextHydrogens]_vars

(***************************************************************************)
(* _scale_charges.  It runs from _apply_forcefield, after the force field  *)
(* gave every site a charge, so no site.charge is None here.               *)
(***************************************************************************)
ScaledChargeValues == -2..2

\* abs_charge = sum(abs(charges)), as a numerator over top.cden.
abs_charge(top) == SumSeq([i \in DOMAIN top.sites |-> Abs(top.sites[i].charge)])

\* The subtraction with abs() left out: the numerator of c - c*net/abs.
ScaledChargeUnsigned(c, net, abs) == c * abs - c * net

\* site.charge -= abs(site.charge) * (net_charge / abs_charge): the
\* numerator of the new charge over the denominator cden * abs.
ScaledCharge(c, net, abs) == c * abs - Abs(c) * net

_scale_charges(top) ==
    LET net == net_charge(top)
        abs == abs_charge(top)
    IN IF abs # 0
       THEN [top EXCEPT
               !.sites = [i \in DOMAIN top.sites |->
                            [top.sites[i] EXCEPT
                               !.charge = ScaledCharge(@, net, abs)]],
               !.cden = @ * abs]
       ELSE top

ScaleCharges ==
    /\ UNCHANGED defaults
    /\ pc = "ready"
    /\ self' = [self EXCEPT !.gmso_system = _scale_charges(@)]
    /\ before' = self
    /\ pc' = "done"
    /\ UNCHANGED <<raised, warned, args>>

InitCharges ==
    /\ defaults = DefaultBaseUnits
    /\ pc = "ready"
    /\ raised = "none"
    /\ warned = FALSE
    /\ \E n \in 1..MaxSites :
         \E c \in [1..n -> ScaledChargeValues] :
            self = [gmso_system |->
                      Topology(n, [i \in 1..n |-> [element |-> 6, mass |-> 12011]],
                               c, { {i, i + 1} : i \in 1..(n - 1) })]
    /\ before = self
    /\ args = <<>>

NextCharges == ScaleCharges

SpecCharges == InitCharges /\ [][NextCharges]_vars

(***************************************************************************)
(* Compounds (mb.Compound).  A compound has a name, particles, bonds and a *)
(* position; its particles all sit at the compound's position (a compound  *)
(* is treated as a point: the extent of a molecule is outside the model).  *)
(***************************************************************************)
Origin == <<QInt(0), QInt(0), QInt(0)>>

VAdd(v, w) == [k \in 1..3 |-> QAdd(v[k], w[k])]

VSub(v, w) == [k \in 1..3 |-> QSub(v[k], w[k])]

\* Compound.translate(by)
translate(c, by) == [c EXCEPT !.pos = VAdd(@, by)]

\* Compound.mass: the sum of the particle masses (0.001 amu).
CompoundMass(c) == SumSeq([i \in DOMAIN c.particles |-> c.particles[i].mass])

\* System.n_molecules
n_molecules(s) == Len(s.all_molecules)

RECURSIVE ConcatTopologies(_, _)
\* The particles of the compounds cs as sites, the bonds renumbered, after
\* the topology acc.
ConcatTopologies(cs, acc) ==
    IF cs = <<>> THEN acc
    ELSE LET c == Head(cs)
             off == Len(acc.sites)
             sites == [i \in DOMAIN c.particles |->
                         [name |-> off + i,
                          element |-> c.particles[i].element,
                          mass |-> c.particles[i].mass,
                          charge |-> c.particles[i].charge,
                          molecule |-> c.name]]
         IN ConcatTopologies(Tail(cs),
                [acc EXCEPT !.sites = @ \o sites,
                            !.bonds = @ \cup { {i + off : i \in b} : b \in c.bonds }])

\* gmso.external.from_mbuild, then identify_connections.
from_mbuild(system) ==
    ConcatTopologies([k \in DOMAIN system.children |-> system.children[k].compound],
                     [sites |-> <<>>, bonds |-> {}, cden |-> 1])

\* System._convert_to_gmso
_convert_to_gmso(s) == from_mbuild(s.system)

(***************************************************************************)
(* System.mass, _calculate_L and set_target_box.                           *)
(***************************************************************************)
\* System.mass, in amu.
mass(s) ==
    IF ~IsNone(s.gmso_system)
    THEN Q(TotalMass(s.gmso_system), 1000, 0)
    ELSE Q(SumSeq([k \in DOMAIN s.all_molecules |->
                     CompoundMass(s.all_molecules[k])]), 1000, 0)

\* 1.66054e-24: grams per amu.
AmuToGram == QU(2, 1, -29, 1)

\* 1e7: nm per cm.
CmToNm == Q(1, 1, 7)

\* 1e-7: cm per nm.
NmToCm == Q(1, 1, -7)

RECURSIVE Prod(_)
\* np.prod of a list of plain floats.
Prod(fs) == IF fs = <<>> THEN QInt(1) ELSE QMul(Head(fs).rad, Prod(Tail(fs)))

\* `L *= 1e7` left out.
ToNmSkipped(L) == L

\* L *= 1e7
ToNm(L) == Times(L, CmToNm)

\* vol = M / self.density, with M = self.mass * 1.66054e-24: cm^3.
Volume(s) == QDiv(QMul(mass(s), AmuToGram), s.density)

\* The square root for a single fixed length left out.
SolveLWithoutRoot(vol, fixed_L) ==
    IF IsNone(fixed_L) THEN Root(Float(vol), 3)
    ELSE Float(QDiv(vol, Prod(fixed_L.vals)))

\* L = vol ** (1 / 3), or vol / np.prod(fixed_L) and its square root when
\* one length is fixed: cm.
SolveL(vol, fixed_L) ==
    IF IsNone(fixed_L) THEN Root(Float(vol), 3)
    ELSE IF Len(fixed_L.vals) = 1
    THEN Root(Float(QDiv(vol, Prod(fixed_L.vals))), 2)
    ELSE Float(QDiv(vol, Prod(fixed_L.vals)))

\* _calculate_L(fixed_L): fixed_L is NoneValue or [vals |-> <<floats, in cm>>].
_calculate_L(s, fixed_L) == ToNm(SolveL(Volume(s), fixed_L))

\* np.where(c) for a Python bool c (a 0-d condition): index 0 when c is
\* True, no index when it is False (numpy 1.x).  Indices are 1-based here.
Where(c) == IF c THEN {1} ELSE {}

\* `constraints is not None` and `constraints is None`: identity tests on the
\* array object itself, which is never None.
ArrayIsNotNone(constraints) == TRUE

ArrayIsNone(constraints) == FALSE

\* fixed_L = constraints[np.where(constraints is not None)]
FixedL(constraints) ==
    [k \in 1..Cardinality(Where(ArrayIsNotNone(constraints))) |->
       constraints[SetToSeq(Where(ArrayIsNotNone(constraints)))[k]]]

\* fixed_L *= 1e-7
ScaledToCm(fixed_L) == [k \in DOMAIN fixed_L |-> Times(fixed_L[k], NmToCm)]

\* constraints[np.where(constraints is None)] = L
Filled(constraints, L) ==
    [k \in 1..3 |->
       IF k \in Where(ArrayIsNone(constraints)) THEN L ELSE constraints[k]]

\* The else branch of set_target_box, on fixed_L before it is scaled.
ConstrainedBox(s, constraints, fixed_L) ==
    IF \E k \in DOMAIN fixed_L : IsNone(fixed_L[k])
    THEN \* fixed_L *= 1e-7 on None
         [target_box |-> s.target_box, raised |-> "TypeError"]
    ELSE [target_box |->
             Filled(constraints, _calculate_L(s, [vals |-> ScaledToCm(fixed_L)])),
          raised |-> "none"]

\* Lx = Ly = Lz = self._calculate_L()
CubicBox(L) == [target_box |-> <<L, L, L>>, raised |-> "none"]

\* set_target_box(x_constraint, y_constraint, z_constraint):
\* [target_box, raised].
set_target_box(s, x_constraint, y_constraint, z_constraint) ==
    IF ~(Truthy(x_constraint) \/ Truthy(y_constraint) \/ Truthy(z_constraint))
    THEN CubicBox(_calculate_L(s, NoneValue))
    ELSE ConstrainedBox(s, <<x_constraint, y_constraint, z_constraint>>,
                        FixedL(<<x_constraint, y_constraint, z_constraint>>))

(***************************************************************************)
(* Pack._build_system and Lattice._build_system.  A built system is        *)
(* [children, box]; a child is [mol, compound, cell]: the index in         *)
(* all_molecules it was made from, the placed compound and, in a lattice,  *)
(* the unit cell <<i, j>> it is in.                                        *)
(***************************************************************************)
\* n_compounds with the molecule counted twice.
CopiesDoubled(all_molecules) == [i \in DOMAIN all_molecules |-> 2]

\* n_compounds = [1 for i in self.all_molecules]
Copies(all_molecules) == [i \in DOMAIN all_molecules |-> 1]

\* box = list(self.target_box * self.packing_expand_factor)
PackBox(target_box, factor) ==
    [k \in DOMAIN target_box |-> Times(target_box[k], factor)]

RECURSIVE Replicate(_, _, _)
\* The children fill_box makes: n_compounds[k] copies of compound[k], from k on.
Replicate(compound, n_compounds, k) ==
    IF k > Len(compound) THEN <<>>
    ELSE [c \in 1..n_compounds[k] |->
            [mol |-> k, compound |-> compound[k], cell |-> <<>>]]
         \o Replicate(compound, n_compounds, k + 1)

\* mb.packing.fill_box.  Where PACKMOL puts the copies is outside the model.
fill_box(compound, n_compounds, box) ==
    [children |-> Replicate(compound, n_compounds, 1), box |-> box]

\* The fill_box call of Pack._build_system on s, whose target box is set.
Packed(s) ==
    [self |-> s,
     system |-> fill_box(s.all_molecules, Copies(s.all_molecules),
                         PackBox(s.target_box, s.packing_expand_factor)),
     raised |-> "none"]

\* Pack._build_system: [self, system, raised].
Pack_build_system(s) ==
    Packed([s EXCEPT !.target_box =
                set_target_box(s, NoneValue, NoneValue, NoneValue).target_box])

\* unit_cell.translate((0, self.y * j, 0)), then with its layer
\* layer.translate((self.x * i, 0, 0)).
CellOffset(s, i, j) == <<QMul(s.x, QInt(i)), QMul(s.y, QInt(j)), QInt(0)>>

\* The two children a unit cell adds: comp1, and comp2 moved by the basis
\* vector, both moved to the cell.
UnitCell(s, next_idx, i, j) ==
    << [mol |-> next_idx + 1,
        compound |-> translate(s.all_molecules[next_idx + 1], CellOffset(s, i, j)),
        cell |-> <<i, j>>],
       [mol |-> next_idx + 2,
        compound |-> translate(translate(s.all_molecules[next_idx + 2], s.basis_vector),
                               CellOffset(s, i, j)),
        cell |-> <<i, j>>] >>

RECURSIVE LatticeCells(_, _, _, _)
\* The two loops of Lattice._build_system from cell c = i * n + j on; next_idx
\* as in the code, placed the children added so far.
LatticeCells(s, c, next_idx, placed) ==
    IF c >= s.n * s.n THEN placed
    ELSE IF next_idx + 1 >= Len(s.all_molecules)
    THEN \* except IndexError: pass
         LatticeCells(s, c + 1, next_idx, placed)
    ELSE LatticeCells(s, c + 1, next_idx + 2,
                      placed \o UnitCell(s, next_idx, c \div s.n, c % s.n))

Extent(coords) == QSub(QMax(coords), QMin(coords))

\* Compound.get_boundingbox().lengths over the children.
BoundingLengths(children) ==
    [k \in 1..3 |-> Extent({ children[c].compound.pos[k] : c \in DOMAIN children })]

RECURSIVE WeightedSum(_, _)
WeightedSum(children, k) ==
    IF children = <<>> THEN QInt(0)
    ELSE QAdd(QMul(QInt(Len(Head(children).compound.particles)),
                   Head(children).compound.pos[k]),
              WeightedSum(Tail(children), k))

RECURSIVE ParticleCount(_)
ParticleCount(children) ==
    IF children = <<>> THEN 0
    ELSE Len(Head(children).compound.particles) + ParticleCount(Tail(children))

\* Compound.center: the mean of the particle positions.
Center(children) ==
    [k \in 1..3 |-> QDiv(WeightedSum(children, k), QInt(ParticleCount(children)))]

\* Compound.translate_to(pos)
translate_all(children, by) ==
    [c \in DOMAIN children |-> [children[c] EXCEPT !.compound = translate(@, by)]]

translate_to(children, pos) == translate_all(children, VSub(pos, Center(children)))

\* x_len, y_len, z_len: the bounding box plus the lattice constants.
LatticeBoxLengths(s, bounding_box) ==
    <<QAdd(bounding_box[1], s.x), QAdd(bounding_box[2], s.y),
      QAdd(bounding_box[3], Q(2, 1, -1))>>

Half(q) == QDiv(q, QInt(2))

\* all_molecules after the children moved: the children are the compounds of
\* all_molecules themselves.
MovedMolecules(all_molecules, moved) ==
    [m \in DOMAIN all_molecules |->
       IF \E c \in DOMAIN moved : moved[c].mol = m
       THEN moved[CHOOSE c \in DOMAIN moved : moved[c].mol = m].compound
       ELSE all_molecules[m]]

\* The end of Lattice._build_system, from set_target_box on: lens are x_len,
\* y_len, z_len, r is what set_target_box gave, moved the centred children.
LatticeBoxed(s, lens, r, moved) ==
    [self |-> [s EXCEPT !.target_box = r.target_box,
                        !.all_molecules = MovedMolecules(@, moved)],
     system |-> [children |-> moved,
                 box |-> <<Float(lens[1]), Float(lens[2]), Float(lens[3])>>],
     raised |-> r.raised]

LatticePlaced(s, placed, lens) ==
    LatticeBoxed(s, lens,
                 set_target_box(s, Float(lens[1]), Float(lens[2]), NoneValue),
                 translate_to(placed, <<Half(lens[1]), Half(lens[2]), Half(lens[3])>>))

LatticeBounded(s, placed) ==
    LatticePlaced(s, placed, LatticeBoxLengths(s, BoundingLengths(placed)))

\* Lattice._build_system: [self, system, raised].
Lattice_build_system(s) == LatticeBounded(s, LatticeCells(s, 0, 0, <<>>))

\* self._build_system() of the subclass.
_build_system(s) ==
    IF s.class = "Pack" THEN Pack_build_system(s) ELSE Lattice_build_system(s)

(***************************************************************************)
(* _apply_forcefield.  A GMSO force field is [types]: the atom type        *)
(* ([epsilon, sigma, charge], epsilon and sigma as [value, unit]) it gives *)
(* to a site of each element.                                              *)
(***************************************************************************)
\* gmso.parameterization.apply with use_molecule_info: a site is typed by
\* the force field registered under its molecule's name; a site whose
\* molecule has none stays untyped (apply only warns).
apply(top, forcefields) ==
    [top EXCEPT !.sites =
        [i \in DOMAIN top.sites |->
           LET site == top.sites[i]
           IN IF site.molecule \in DOMAIN forcefields
              THEN [name |-> site.name, element |-> site.element,
                    mass |-> site.mass, molecule |-> site.molecule,
                    atom_type |-> forcefields[site.molecule].types[site.element],
                    charge |-> forcefields[site.molecule].types[site.element].charge]
              ELSE [name |-> site.name, element |-> site.element,
                    mass |-> site.mass, molecule |-> site.molecule,
                    atom_type |-> NoneValue, charge |-> 0]]]

MaxOf(S) == CHOOSE x \in S : \A y \in S : y <= x

\* `site.charge = 0` for every site.
Uncharged(top) ==
    [top EXCEPT !.sites = [i \in DOMAIN top.sites |-> [top.sites[i] EXCEPT !.charge = 0]]]

\* The two `if`s on remove_charges and scale_charges.
Charged(s, typed) ==
    IF s.remove_charges THEN Uncharged(typed)
    ELSE IF s.scale_charges THEN _scale_charges(typed)
    ELSE typed

epsilons(sites) == [i \in DOMAIN sites |-> sites[i].atom_type.epsilon]

sigmas(sites) == [i \in DOMAIN sites |-> sites[i].atom_type.sigma]

masses(sites) == [i \in DOMAIN sites |-> sites[i].mass]

\* np.max(values) if self.auto_scale else 1.0
Scale(auto_scale, values) == IF auto_scale THEN MaxOf(values) ELSE 1

\* The three assignments to self._reference_values.
SetScales(s, sites) ==
    [s EXCEPT
       !.reference_values =
          [k \in DOMAIN @ \cup {"energy", "length", "mass"} |->
             CASE k = "energy" ->
                    [value |-> Scale(s.auto_scale,
                                     { epsilons(sites)[i].value : i \in DOMAIN sites }),
                     unit |-> epsilons(sites)[1].unit]
               [] k = "length" ->
                    [value |-> Scale(s.auto_scale,
                                     { sigmas(sites)[i].value : i \in DOMAIN sites }),
                     unit |-> sigmas(sites)[1].unit]
               [] k = "mass" ->
                    IF s.auto_scale
                    THEN [value |-> Scale(TRUE, { masses(sites)[i] : i \in DOMAIN sites }),
                          unit |-> "0.001 amu"]
                    ELSE [value |-> 1, unit |-> "g/mol"]
               [] OTHER -> @[k]]]

\* _apply_forcefield after apply() returned typed.
Applied(s, typed) ==
    IF \E i \in DOMAIN typed.sites : IsNone(typed.sites[i].atom_type)
    THEN \* site.charge is None (-=), or site.atom_type is None (.parameters)
         [self |-> [s EXCEPT !.gmso_system = typed],
          raised |-> IF s.scale_charges /\ ~s.remove_charges /\ abs_charge(typed) # 0
                     THEN "TypeError" ELSE "AttributeError",
          warned |-> FALSE]
    ELSE [self |-> SetScales([s EXCEPT !.gmso_system = Charged(s, typed)],
                             Charged(s, typed).sites),
          raised |-> "none",
          warned |-> FALSE]

\* _apply_forcefield: [self, raised, warned].
_apply_forcefield(s) == Applied(s, apply(s.gmso_system, s.gmso_forcefields_dict))

(***************************************************************************)
(* System.__init__.                                                        *)
(***************************************************************************)
\* d[key] = value on a dict d (a function on its keys).
Put(d, key, value) ==
    [k \in DOMAIN d \cup {key} |-> IF k = key THEN value ELSE d[k]]

\* compound.name = str(n)
Named(c, n) == [c EXCEPT !.name = ToString(n)]

\* hoomd_organics.utils.xml_to_gmso_ff: the GMSO force field an xml file
\* holds.
xml_to_gmso_ff(force_field) == force_field.xml

\* One pass of `for mol_item in self._molecules` on the collected state c.
CollectItem(mol_item, c) ==
    CASE mol_item.kind = "Molecule" ->
           [c EXCEPT
              !.all_molecules =
                 @ \o [k \in DOMAIN mol_item.molecules |->
                         Named(mol_item.molecules[k], c.n_mol_types)],
              !.hoomd_forcefield =
                 IF ~IsNone(mol_item.force_field) /\ mol_item.ff_type = "Hoomd"
                 THEN Append(@, mol_item.force_field) ELSE @,
              !.gmso_forcefields_dict =
                 IF ~IsNone(mol_item.force_field) /\ mol_item.ff_type # "Hoomd"
                 THEN Put(@, ToString(c.n_mol_types), xml_to_gmso_ff(mol_item.force_field))
                 ELSE @,
              !.n_mol_types = @ + 1]
      [] mol_item.kind = "Compound" ->
           [c EXCEPT
              !.all_molecules = Append(@, Named(mol_item.compound, c.n_mol_types))]
      [] mol_item.kind = "List" ->
           IF \A k \in DOMAIN mol_item.molecules : mol_item.molecules[k].is_compound
           THEN [c EXCEPT
                   !.all_molecules =
                      @ \o [k \in DOMAIN mol_item.molecules |->
                              Named(mol_item.molecules[k].compound, c.n_mol_types)],
                   !.n_mol_types = @ + 1]
           ELSE [c EXCEPT !.raised = "MoleculeLoadError"]
      [] OTHER -> c

RECURSIVE CollectMolecules(_, _)
CollectMolecules(items, c) ==
    IF items = <<>> \/ c.raised # "none" THEN c
    ELSE CollectMolecules(Tail(items), CollectItem(Head(items), c))

\* ff_index for molecule type i (0-based, as in the code).
FFIndex(i, force_field) == IF i < Len(force_field) THEN i ELSE 0

RECURSIVE CollectForceFields(_, _, _, _)
\* `for i in range(self.n_mol_types)` from i on: [dict, raised].
CollectForceFields(i, n_mol_types, force_field, dict) ==
    IF i >= n_mol_types THEN [dict |-> dict, raised |-> "none"]
    ELSE IF ToString(i) \in DOMAIN dict
    THEN CollectForceFields(i + 1, n_mol_types, force_field, dict)
    ELSE LET entry == force_field[FFIndex(i, force_field) + 1]
         IN IF "gmso_ff" \notin DOMAIN entry
            THEN \* getattr(entry, "gmso_ff") without a default
                 [dict |-> dict, raised |-> "AttributeError"]
            ELSE IF IsNone(entry.gmso_ff)
            THEN [dict |-> dict, raised |-> "ForceFieldError"]
            ELSE CollectForceFields(i + 1, n_mol_types, force_field,
                                    Put(dict, ToString(i), entry.gmso_ff))

\* The attributes set before the molecules are collected (a: the arguments).
NewSystem(a) ==
    [class |-> a.class,
     molecules |-> a.molecules,
     force_field |-> IF ~IsNone(a.force_field) /\ a.force_field.list # <<>>
                     THEN a.force_field ELSE NoneValue,
     density |-> a.density,
     auto_scale |-> a.auto_scale,
     remove_hydrogens |-> a.remove_hydrogens,
     remove_charges |-> a.remove_charges,
     scale_charges |-> a.scale_charges,
     target_box |-> NoneValue,
     all_molecules |-> <<>>,
     hoomd_forcefield |-> <<>>,
     reference_values |-> a.base_units,
     gmso_forcefields_dict |-> <<>>,
     gmso_system |-> NoneValue,
     n_mol_types |-> 0,
     system |-> NoneValue,
     packing_expand_factor |-> a.packing_expand_factor,
     x |-> a.x, y |-> a.y, n |-> a.n, basis_vector |-> a.basis_vector]

\* The state when `for mol_item in self._molecules` ended with c.
Collected(s, c) ==
    [self |-> [s EXCEPT !.all_molecules = c.all_molecules,
                        !.n_mol_types = c.n_mol_types,
                        !.gmso_forcefields_dict = c.gmso_forcefields_dict,
                        !.hoomd_forcefield = c.hoomd_forcefield],
     raised |-> c.raised,
     warned |-> FALSE]

\* The state when the loop over the molecule types ended with f.
ForceFieldsCollected(s, f) ==
    [self |-> [s EXCEPT !.gmso_forcefields_dict = f.dict],
     raised |-> f.raised,
     warned |-> FALSE]

\* `if self._force_field:` and its loop.  r is [self, raised, warned], as
\* the steps before left it; a step after a raise does nothing.
ForceFieldsStep(r) ==
    IF r.raised # "none" \/ IsNone(r.self.force_field) THEN r
    ELSE ForceFieldsCollected(r.self,
             CollectForceFields(0, r.self.n_mol_types, r.self.force_field.list,
                                r.self.gmso_forcefields_dict))

\* self.system = <what _build_system returned as b>
Built(b) ==
    [self |-> IF b.raised = "none" THEN [b.self EXCEPT !.system = b.system] ELSE b.self,
     raised |-> b.raised,
     warned |-> FALSE]

BuildStep(r) == IF r.raised # "none" THEN r ELSE Built(_build_system(r.self))

\* self.gmso_system = self._convert_to_gmso()
ConvertStep(r) ==
    IF r.raised # "none" THEN r
    ELSE [r EXCEPT !.self.gmso_system = _convert_to_gmso(r.self)]

\* if self._force_field: self._apply_forcefield()
ApplyStep(r) ==
    IF r.raised # "none" \/ IsNone(r.self.force_field) THEN r
    ELSE _apply_forcefield(r.self)

\* The state when _remove_hydrogens returned h.
HydrogensRemoved(s, h) ==
    [self |-> [s EXCEPT !.gmso_system = h.top],
     raised |-> h.raised,
     warned |-> h.warned]

\* if self.remove_hydrogens: self._remove_hydrogens()
RemoveStep(r) ==
    IF r.raised # "none" \/ ~r.self.remove_hydrogens THEN r
    ELSE HydrogensRemoved(r.self, _remove_hydrogens(r.self.gmso_system))

\* System.__init__ (through Pack.__init__ or Lattice.__init__):
\* [self, raised, warned].  After a raise, self holds the attributes set so
\* far.
Constructor(a) ==
    RemoveStep(ApplyStep(ConvertStep(BuildStep(ForceFieldsStep(
        Collected(NewSystem(a),
                  CollectMolecules(a.molecules,
                      [all_molecules |-> <<>>, n_mol_types |-> 0,
                       gmso_forcefields_dict |-> <<>>, hoomd_forcefield |-> <<>>,
                       raised |-> "none"])))))))

(***************************************************************************)
(* The reference_values setter.                                            *)
(***************************************************************************)
\* hoomd_organics.utils.validate_ref_value(value, dimension): the quantity
\* itself, or the quantity a string such as "1 nm" stands for, when its
\* dimension is the one asked for; a raise otherwise.  [value, raised].
validate_ref_value(ref_value, dimension) ==
    IF ref_value.dim = dimension
    THEN [value |-> [value |-> ref_value.value, unit |-> ref_value.unit,
                     dim |-> ref_value.dim, str |-> FALSE],
          raised |-> "none"]
    ELSE [value |-> NoneValue, raised |-> "ReferenceUnitError"]

\* The list with the last key forgotten.
RefKeysWithoutEnergy == <<"length", "mass">>

\* ref_keys = ["length", "mass", "energy"]
RefKeys == <<"length", "mass", "energy">>

\* The dimension reference_<k>.setter validates against.
RefDimension(k) == k

RECURSIVE SetReferences(_, _, _)
\* `for k in ref_keys` over keys: [reference_values, raised].
SetReferences(keys, ref_value_dict, refs) ==
    IF keys = <<>> THEN [reference_values |-> refs, raised |-> "none"]
    ELSE LET k == Head(keys)
         IN IF k \notin DOMAIN ref_value_dict
            THEN [reference_values |-> refs, raised |-> "ValueError"]
            ELSE LET v == validate_ref_value(ref_value_dict[k], RefDimension(k))
                 IN IF v.raised # "none"
                    THEN [reference_values |-> refs, raised |-> v.raised]
                    ELSE SetReferences(Tail(keys), ref_value_dict,
                                       Put(refs, k, v.value))

\* reference_values.setter
reference_values_setter(s, ref_value_dict) ==
    SetReferences(RefKeys, ref_value_dict, s.reference_values)

\* System.reference_length, reference_mass, reference_energy
reference(s, k) ==
    IF k \in DOMAIN s.reference_values THEN s.reference_values[k] ELSE NoneValue

(***************************************************************************)
(* The life of one System: it is constructed, then one of its methods is   *)
(* called.                                                                 *)
(***************************************************************************)
MaxMolecules == 6

Bead(m) ==
    [name |-> "", particles |-> <<[element |-> 0, mass |-> m, charge |-> 0]>>,
     bonds |-> {}, pos |-> Origin]

BeadMasses == {12000, 16000}

\* Molecule(num_mols = k, compound = a bead of mass m), without force field.
MoleculeItem(k, m) ==
    [kind |-> "Molecule", molecules |-> [i \in 1..k |-> Bead(m)],
     force_field |-> NoneValue, ff_type |-> "None"]

MoleculeArgs ==
    { <<MoleculeItem(k, m)>> : k \in 1..MaxMolecules, m \in BeadMasses }
    \cup { <<MoleculeItem(k1, m1), MoleculeItem(k2, m2)>> :
             k1 \in 1..MaxMolecules, k2 \in 1..MaxMolecules,
             m1 \in BeadMasses, m2 \in BeadMasses }

CountMolecules(items) == SumSeq([i \in DOMAIN items |-> Len(items[i].molecules)])

Densities == { Q(1, 1, 0), Q(5, 1, -1) }

ExpandFactors == { QInt(5), QInt(2) }

LatticeSizes == {1, 2}

DefaultArgs ==
    [class |-> "Pack", molecules |-> <<>>, density |-> Q(1, 1, 0),
     force_field |-> NoneValue, auto_scale |-> FALSE,
     remove_hydrogens |-> FALSE, remove_charges |-> FALSE,
     scale_charges |-> FALSE, base_units |-> <<>>,
     packing_expand_factor |-> QInt(5),
     x |-> QInt(1), y |-> QInt(2), n |-> 1,
     basis_vector |-> <<Q(5, 1, -1), Q(5, 1, -1), QInt(0)>>]

\* Pack(molecules, density, packing_expand_factor) and
\* Lattice(molecules, density, x, y, n), every layer of the lattice holding
\* at least one unit cell.
BoxArgs ==
    { [DefaultArgs EXCEPT !.class = "Pack", !.molecules = ms, !.density = d,
                          !.packing_expand_factor = f] :
        ms \in { m \in MoleculeArgs : CountMolecules(m) <= MaxMolecules },
        d \in Densities, f \in ExpandFactors }
    \cup
    { [DefaultArgs EXCEPT !.class = "Lattice", !.molecules = ms, !.density = d,
                          !.n = n] :
        ms \in { m \in MoleculeArgs : CountMolecules(m) <= MaxMolecules },
        d \in Densities, n \in LatticeSizes }

\* A GMSO force field: the atom type it gives to a site of each element.
GmsoForceFieldIn(name, eps, sig, energy_unit, length_unit) ==
    [name |-> name,
     types |-> [el \in {0, 1, 6} |->
                  [epsilon |-> [value |-> eps, unit |-> energy_unit],
                   sigma |-> [value |-> sig, unit |-> length_unit],
                   charge |-> 0]]]

\* A force field in the units of a foyer xml file.
GmsoForceField(name, eps, sig) == GmsoForceFieldIn(name, eps, sig, "kJ/mol", "nm")

\* The entries a force_field list is drawn from: one that holds a GMSO force
\* field, one whose gmso_ff is None, one without the attribute gmso_ff (a
\* force field of the Hoomd kind).
ForceFieldEntries ==
    { [gmso_ff |-> GmsoForceField("gaff", 2, 3)],
      [gmso_ff |-> NoneValue],
      [hoomd_forces |-> <<"lj">>] }

\* A force_field argument is None or [list |-> its entries].
ForceFieldLists ==
    { [list |-> <<e>>] : e \in ForceFieldEntries }
    \cup { [list |-> <<e1, e2>>] : e1 \in ForceFieldEntries, e2 \in ForceFieldEntries }

\* Molecule(num_mols = 1, compound = a bead), with or without a force field
\* of its own.
OwnForceFields ==
    { NoneValue,
      [xml |-> GmsoForceField("own", 4, 1)],
      [xml |-> GmsoForceFieldIn("own_kcal", 1, 20, "kcal/mol", "angstrom")] }

TypedItem(ff) ==
    [kind |-> "Molecule", molecules |-> <<Bead(12000)>>,
     force_field |-> ff, ff_type |-> IF IsNone(ff) THEN "None" ELSE "XML"]

\* An mb.Compound given as an item of molecules.
CompoundItem == [kind |-> "Compound", compound |-> Bead(12000)]

\* A list of two mb.Compounds given as an item of molecules.
ListItem ==
    [kind |-> "List",
     molecules |-> <<[is_compound |-> TRUE, compound |-> Bead(12000)],
                     [is_compound |-> TRUE, compound |-> Bead(16000)]>>]

\* The items of a molecules argument.
Items == { TypedItem(f) : f \in OwnForceFields } \cup { CompoundItem, ListItem }

\* Pack(molecules, density, force_field, auto_scale) on one or two items.
ForceFieldArgs ==
    { [DefaultArgs EXCEPT !.molecules = ms, !.force_field = ffs, !.auto_scale = sc] :
        ms \in { <<it>> : it \in Items }
               \cup { <<it1, it2>> : it1 \in Items, it2 \in Items },
        ffs \in ForceFieldLists, sc \in BOOLEAN }

\* Compounds of hydrogen and carbon atoms that carry partial charges (as a
\* compound loaded from a mol2 file does): a C-H pair, an H-H pair, a lone C.
Hydrogen == [element |-> 1, mass |-> HydrogenMass, charge |-> 1]

Carbon == [element |-> 6, mass |-> 12011, charge |-> -1]

Compounds ==
    { [name |-> "", particles |-> <<Carbon, Hydrogen>>, bonds |-> {{1, 2}}, pos |-> Origin],
      [name |-> "", particles |-> <<Hydrogen, Hydrogen>>, bonds |-> {{1, 2}}, pos |-> Origin],
      [name |-> "", particles |-> <<Carbon>>, bonds |-> {}, pos |-> Origin] }

\* A force field that gives hydrogen the charge +1 and every other site -1.
ChargedForceField ==
    [name |-> "charged",
     types |-> [el \in {0, 1, 6} |->
                  [epsilon |-> [value |-> 2, unit |-> "kJ/mol"],
                   sigma |-> [value |-> 3, unit |-> "nm"],
                   charge |-> IF el = 1 THEN 1 ELSE -1]]]

\* Molecule(num_mols = 1, compound = c), without a force field of its own.
CompoundMolecule(c) ==
    [kind |-> "Molecule", molecules |-> <<c>>,
     force_field |-> NoneValue, ff_type |-> "None"]

\* Pack(molecules, density, force_field, remove_hydrogens, remove_charges,
\* scale_charges) on one or two of the compounds, a carbon among them.
ChemistryArgs ==
    { [DefaultArgs EXCEPT !.molecules = ms, !.force_field = ffs,
                          !.remove_hydrogens = rh, !.remove_charges = rc,
                          !.scale_charges = sc] :
        ms \in { <<CompoundMolecule(c)>> : c \in { d \in Compounds : Carbon = d.particles[1] } }
               \cup { <<CompoundMolecule(c1), CompoundMolecule(c2)>> :
                        c1 \in Compounds, c2 \in { d \in Compounds : Carbon = d.particles[1] } },
        ffs \in { NoneValue, [list |-> <<[gmso_ff |-> ChargedForceField]>>] },
        rh \in BOOLEAN, rc \in BOOLEAN, sc \in BOOLEAN }

Init ==
    /\ defaults = DefaultBaseUnits
    /\ pc = "new"
    /\ raised = "none"
    /\ warned = FALSE
    /\ self = NoneValue
    /\ before = NoneValue
    /\ \/ args \in { a \in BoxArgs :
                       a.class = "Lattice" =>
                          CountMolecules(a.molecules) >= 2 * (a.n * (a.n - 1) + 1) }
       \/ args \in ForceFieldArgs
       \/ args \in ChemistryArgs

\* What the constructor call leaves in the variables.
Constructed(r) ==
    /\ self' = r.self
    /\ raised' = r.raised
    /\ warned' = r.warned
    /\ pc' = IF r.raised = "none" THEN "built" ELSE "failed"

Construct ==
    /\ UNCHANGED defaults
    /\ pc = "new"
    /\ Constructed(Constructor(args))
    /\ before' = self
    /\ UNCHANGED args

Constraints == { NoneValue, Float(QInt(2)), Float(Q(5, 1, -1)) }

SetTargetBox ==
    /\ UNCHANGED defaults
    /\ pc = "built"
    /\ \E x \in Constraints, y \in Constraints, z \in Constraints :
         /\ args' = [call |-> "set_target_box", x_constraint |-> x,
                     y_constraint |-> y, z_constraint |-> z]
         /\ LET r == set_target_box(self, x, y, z)
            IN /\ self' = [self EXCEPT !.target_box = r.target_box]
               /\ raised' = r.raised
    /\ before' = self
    /\ pc' = "called"
    /\ UNCHANGED warned

\* The fixed lengths (cm) _calculate_L is called with: 2 nm and 0.5 nm.
FixedLengths == { Float(Q(2, 1, -7)), Float(Q(5, 1, -8)) }

FixedLists ==
    { NoneValue }
    \cup { [vals |-> <<a>>] : a \in FixedLengths }
    \cup { [vals |-> <<a, b>>] : a \in FixedLengths, b \in FixedLengths }

\* self._calculate_L(fixed_L): args records the call and what it returned.
CalculateL ==
    /\ UNCHANGED defaults
    /\ pc = "built"
    /\ \E fixed_L \in FixedLists :
         args' = [call |-> "_calculate_L", fixed_L |-> fixed_L,
                  returned |-> _calculate_L(self, fixed_L)]
    /\ before' = self
    /\ pc' = "called"
    /\ UNCHANGED <<self, raised, warned>>

\* What a key of the assigned dictionary may hold: a quantity of the right
\* dimension, a string that parses to one, or a quantity of another dimension.
RefInputs(k) ==
    { [value |-> 2, unit |-> k, dim |-> k, str |-> FALSE],
      [value |-> 3, unit |-> k, dim |-> k, str |-> TRUE],
      [value |-> 2, unit |-> "s", dim |-> "time", str |-> FALSE] }

RefDicts ==
    UNION { [K -> UNION { RefInputs(k) : k \in K }] : K \in SUBSET {"length", "mass", "energy"} }

SetReferenceValues ==
    /\ UNCHANGED defaults
    /\ pc = "built"
    /\ \E d \in RefDicts :
         /\ \A k \in DOMAIN d : d[k] \in RefInputs(k)
         /\ args' = [call |-> "reference_values", ref_value_dict |-> d]
         /\ LET r == reference_values_setter(self, d)
            IN /\ self' = [self EXCEPT !.reference_values = r.reference_values]
               /\ raised' = r.raised
    /\ before' = self
    /\ pc' = "called"
    /\ UNCHANGED warned

Next == Construct \/ SetTargetBox \/ SetReferenceValues \/ CalculateL

Spec == Init /\ [][Next]_vars

(***************************************************************************)
(* Claims about _remove_hydrogens.                                         *)
(***************************************************************************)
SiteNames(top) == { top.sites[i].name : i \in DOMAIN top.sites }

\* The names of the hydrogens of a topology: the sites of element 1, or the
\* sites of mass 1.008 when no site has element 1.
HydrogenNames(top) ==
    IF \E i \in DOMAIN top.sites : top.sites[i].element = 1
    THEN { top.sites[i].name : i \in { j \in DOMAIN top.sites : top.sites[j].element = 1 } }
    ELSE { top.sites[i].name : i \in { j \in DOMAIN top.sites : top.sites[j].mass = 1008 } }

\* C1: after _remove_hydrogens the total mass and the net charge of the
\* system equal the total mass and the net charge before the call.
C1_MassAndChargeConserved ==
    pc = "done" =>
        /\ TotalMass(self.gmso_system) = TotalMass(before.gmso_system)
        /\ net_charge(self.gmso_system) * before.gmso_system.cden
             = net_charge(before.gmso_system) * self.gmso_system.cden

\* C2: after _remove_hydrogens has returned, the sites left are exactly the
\* sites that were no hydrogen, n_particles has dropped by the number of
\* hydrogens found, and when none was found the system is unchanged and a
\* warning was issued.
C2_HydrogensRemoved ==
    (pc = "done" /\ raised = "none") =>
        LET pre == before.gmso_system
            post == self.gmso_system
            H == HydrogenNames(pre)
        IN /\ SiteNames(post) = SiteNames(pre) \ H
           /\ n_particles(self) = n_particles(before) - Cardinality(H)
           /\ (H = {} => (self = before /\ warned))

\* C2 witness: hydrogens were found by mass and removed, a heavy atom stays.
C2_Witness ==
    /\ pc = "done" /\ raised = "none"
    /\ \A i \in DOMAIN before.gmso_system.sites :
           before.gmso_system.sites[i].element # 1
    /\ n_particles(self) < n_particles(before)
    /\ n_particles(self) >= 1

(***************************************************************************)
(* Claims about _scale_charges.                                            *)
(***************************************************************************)
\* C3: when the absolute values of the site charges do not sum to zero, the
\* net charge after _scale_charges is zero; when every charge is zero the
\* call changes no charge.
C3_ScaleChargesNeutralizes ==
    pc = "done" =>
        /\ abs_charge(before.gmso_system) # 0 => net_charge(self.gmso_system) = 0
        /\ abs_charge(before.gmso_system) = 0 =>
              \A i \in DOMAIN self.gmso_system.sites :
                 self.gmso_system.sites[i].charge = 0

\* C3 witness: a system of non-zero net charge was scaled to net charge zero
\* and still carries charges of both signs.
C3_Witness ==
    /\ pc = "done"
    /\ net_charge(before.gmso_system) # 0
    /\ net_charge(self.gmso_system) = 0
    /\ \E i \in DOMAIN self.gmso_system.sites : self.gmso_system.sites[i].charge > 0

(***************************************************************************)
(* Claims about set_target_box.                                            *)
(***************************************************************************)
\* mass / density in nm^3, the mass taken from the sites of the system: the
\* mass in amu times 1.66054e-24 g, over the density in g/cm^3, times
\* 1e21 nm^3 per cm^3.
TargetVolume(s) ==
    QDiv(QMul(QMul(Q(TotalMass(s.gmso_system), 1000, 0), Q(166054, 1, -29)),
              Q(1, 1, 21)),
         s.density)

\* The constraints of the set_target_box call the state records.
CallConstraints == <<args.x_constraint, args.y_constraint, args.z_constraint>>

SetTargetBoxCalled == pc = "called" /\ args.call = "set_target_box"

\* L^2 for a length L that is a plain number or a square root.
Squared(L) == QPow(L.rad, 2 \div L.deg)

\* C4: set_target_box called with some of the constraints given leaves each
\* given length at its value and a number in each of the others, and the
\* product of the three lengths is mass / density.
C4_ConstrainedBox ==
    (SetTargetBoxCalled /\ \E k \in 1..3 : ~IsNone(CallConstraints[k])) =>
        /\ raised = "none"
        /\ \A k \in 1..3 :
              /\ ~IsNone(self.target_box[k])
              /\ ~IsNone(CallConstraints[k]) => self.target_box[k] = CallConstraints[k]
        /\ \A k \in 1..3 : self.target_box[k].deg \in {1, 2}
        /\ QMul(Squared(self.target_box[1]),
                QMul(Squared(self.target_box[2]), Squared(self.target_box[3])))
             = QPow(TargetVolume(self), 2)

\* C5: set_target_box called without constraints sets target_box to
\* <<L, L, L>> with L the cube root of mass / density (nm).
C5_CubicBox ==
    (SetTargetBoxCalled /\ \A k \in 1..3 : IsNone(CallConstraints[k])) =>
        /\ raised = "none"
        /\ self.target_box[1] = self.target_box[2]
        /\ self.target_box[2] = self.target_box[3]
        /\ self.target_box[1] = [deg |-> 3, rad |-> TargetVolume(self)]

\* C5 witness: the call without constraints was made on a system of four
\* molecules at density 0.5 and set a cube root.
C5_Witness ==
    /\ SetTargetBoxCalled
    /\ \A k \in 1..3 : IsNone(CallConstraints[k])
    /\ n_molecules(self) = 4
    /\ self.density = Q(5, 1, -1)
    /\ self.target_box[1].deg = 3

(***************************************************************************)
(* Claims about Pack and Lattice.                                          *)
(***************************************************************************)
PackBuilt == pc = "built" /\ args.class = "Pack"

LatticeBuilt == pc = "built" /\ args.class = "Lattice"

\* The children of the built system made from molecule m of all_molecules.
ChildrenOf(m) == { c \in DOMAIN self.system.children : self.system.children[c].mol = m }

\* mass / density in nm^3, the mass taken from the molecules that are packed.
PackedVolume(s) ==
    QDiv(QMul(QMul(Q(SumSeq([m \in DOMAIN s.all_molecules |->
                               CompoundMass(s.all_molecules[m])]), 1000, 0),
                   Q(166054, 1, -29)),
              Q(1, 1, 21)),
         s.density)

\* C6: a Pack that was built has the cubic target box of its density, its
\* system was packed into a box of the target box edges times
\* packing_expand_factor, and holds exactly one copy of each molecule of
\* all_molecules: n_molecules molecules.
C6_PackBuild ==
    PackBuilt =>
        /\ self.target_box = [k \in 1..3 |-> [deg |-> 3, rad |-> PackedVolume(self)]]
        /\ \A k \in 1..3 :
              /\ self.system.box[k].deg = 3
              /\ self.system.box[k].rad
                   = QMul(PackedVolume(self), QPow(self.packing_expand_factor, 3))
        /\ \A m \in DOMAIN self.all_molecules : Cardinality(ChildrenOf(m)) = 1
        /\ Len(self.system.children) = n_molecules(self)

\* C6 witness: a Pack of two molecule types, five molecules, was built with
\* packing_expand_factor 2.
C6_Witness ==
    /\ PackBuilt
    /\ n_molecules(self) = 5
    /\ self.n_mol_types = 2
    /\ self.packing_expand_factor = QInt(2)
    /\ Len(self.system.children) = 5

\* The first child of the unit cell <<i, j>>.
FirstOfCell(i, j) ==
    self.system.children[
        Min({ c \in DOMAIN self.system.children : self.system.children[c].cell = <<i, j>> })]

Cells == { self.system.children[c].cell : c \in DOMAIN self.system.children }

\* C7: a Lattice that was built holds every molecule of all_molecules exactly
\* once, the molecules 2k and 2k+1 in one unit cell, and the cell <<i, j>>
\* lies at (x*i, y*j, 0) from the cell <<0, 0>>.
C7_LatticeBuild ==
    LatticeBuilt =>
        /\ \A m \in DOMAIN self.all_molecules : Cardinality(ChildrenOf(m)) = 1
        /\ \A c, d \in DOMAIN self.system.children :
              (self.system.children[c].mol + 1) \div 2 = (self.system.children[d].mol + 1) \div 2
                 => self.system.children[c].cell = self.system.children[d].cell
        /\ \A cell \in Cells :
              VSub(FirstOfCell(cell[1], cell[2]).compound.pos, FirstOfCell(0, 0).compound.pos)
                = <<QMul(self.x, QInt(cell[1])), QMul(self.y, QInt(cell[2])), QInt(0)>>

(***************************************************************************)
(* Claims about the reference_values setter.                               *)
(***************************************************************************)
SetReferenceValuesCalled == pc = "called" /\ args.call = "reference_values"

MissingKeys == {"length", "mass", "energy"} \ DOMAIN args.ref_value_dict

\* The keys the setter reaches before it meets a missing one.
KeysBeforeMissing ==
    IF "length" \in MissingKeys THEN {}
    ELSE IF "mass" \in MissingKeys THEN {"length"}
    ELSE IF "energy" \in MissingKeys THEN {"length", "mass"}
    ELSE {"length", "mass", "energy"}

ConstructorReturned == pc \in {"built", "failed"}

\* The force field an item of molecules carries itself.
OwnForceField(item) ==
    IF item.kind = "Molecule" THEN item.force_field ELSE NoneValue

\* A Molecule or a list makes a molecule type; type i is the item i + 1 of
\* these.
MakesType(item) == item.kind # "Compound"

TypeItems == SelectSeq(args.molecules, MakesType)

\* The molecule types whose force field comes from the force_field list:
\* those whose item brought none.
TypesFromList ==
    { i \in 0..(Len(TypeItems) - 1) : IsNone(OwnForceField(TypeItems[i + 1])) }

SelectedEntry(i) == args.force_field.list[FFIndex(i, args.force_field.list) + 1]

\* The entry provides no GMSO force field: gmso_ff is missing or None.
NoGmsoForceField(entry) == "gmso_ff" \notin DOMAIN entry \/ IsNone(entry.gmso_ff)

\* C9: a constructor whose force_field list has an entry without GMSO force
\* field selected for a molecule type raises ForceFieldError and builds no
\* system.
C9_ForceFieldError ==
    (ConstructorReturned /\ ~IsNone(args.force_field)
       /\ \E i \in TypesFromList : NoGmsoForceField(SelectedEntry(i))) =>
        /\ raised = "ForceFieldError"
        /\ IsNone(self.system)

(***************************************************************************)
(* Polymer(lengths, num_mols): hoomd_organics.base.molecule.Polymer, as    *)
(* its tests use it.  A chain is [monomers]: the number of its monomers.   *)
(***************************************************************************)
MaxChains == 3

ChainLengths == {1, 2, 3}

MolCounts == {1, 2}

\* Polymer._build(length): a chain of `length` monomers.
_build(length) == [monomers |-> length]

\* The chains with the two lists interchanged.
ChainsSwapped(lengths, num_mols, idx) ==
    [i \in 1..lengths[idx] |-> _build(num_mols[idx])]

\* `for i in range(self.n_mols[idx])`: num_mols[idx] chains of lengths[idx].
Chains(lengths, num_mols, idx) ==
    [i \in 1..num_mols[idx] |-> _build(lengths[idx])]

RECURSIVE _generate(_, _, _)
\* `for idx, length in enumerate(self.lengths)` from idx on.
_generate(lengths, num_mols, idx) ==
    IF idx > Len(lengths) THEN <<>>
    ELSE Chains(lengths, num_mols, idx) \o _generate(lengths, num_mols, idx + 1)

\* Polymer.__init__: [self, raised].
Polymer(lengths, num_mols) ==
    IF Len(num_mols) # Len(lengths)
    THEN [self |-> [lengths |-> lengths], raised |-> "ValueError"]
    ELSE [self |-> [lengths |-> lengths, n_mols |-> num_mols,
                    molecules |-> _generate(lengths, num_mols, 1)],
          raised |-> "none"]

InitPolymer ==
    /\ defaults = DefaultBaseUnits
    /\ pc = "ready"
    /\ raised = "none"
    /\ warned = FALSE
    /\ self = NoneValue
    /\ before = NoneValue
    /\ \E n \in 1..MaxChains, m \in 1..MaxChains :
         \E l \in [1..n -> ChainLengths], k \in [1..m -> MolCounts] :
            args = [lengths |-> l, num_mols |-> k]

NewPolymer ==
    /\ UNCHANGED defaults
    /\ pc = "ready"
    /\ self' = Polymer(args.lengths, args.num_mols).self
    /\ raised' = Polymer(args.lengths, args.num_mols).raised
    /\ before' = self
    /\ pc' = "done"
    /\ UNCHANGED <<warned, args>>

NextPolymer == NewPolymer

SpecPolymer == InitPolymer /\ [][NextPolymer]_vars

\* The number of chains the entries before entry k ask for.
ChainsBefore(num_mols, k) == SumSeq(SubSeq(num_mols, 1, k - 1))

\* C10: a Polymer whose lengths and num_mols differ in length raises
\* ValueError; when they agree the polymer holds, for each k in list order,
\* num_mols[k] chains of lengths[k] monomers.
C10_PolymerChains ==
    pc = "done" =>
        IF Len(args.lengths) # Len(args.num_mols)
        THEN raised = "ValueError"
        ELSE /\ raised = "none"
             /\ Len(self.molecules) = SumSeq(args.num_mols)
             /\ \A k \in DOMAIN args.lengths :
                   \A j \in 1..args.num_mols[k] :
                      self.molecules[ChainsBefore(args.num_mols, k) + j].monomers
                        = args.lengths[k]

\* C10 witness: Polymer(lengths = [3, 2], num_mols = [1, 2]) holds chains of
\* 3, 2 and 2 monomers.
C10_Witness ==
    /\ pc = "done"
    /\ args.lengths = <<3, 2>>
    /\ args.num_mols = <<1, 2>>
    /\ raised = "none"
    /\ [i \in DOMAIN self.molecules |-> self.molecules[i].monomers] = <<3, 2, 2>>

(***************************************************************************)
(* Claims about the reference values _apply_forcefield sets.               *)
(***************************************************************************)
\* What one of a unit is worth in the smallest unit of its dimension the
\* inputs use: energies in J/mol, lengths in angstrom, masses in 0.001 amu.
UnitScale(unit) ==
    CASE unit = "kJ/mol" -> 1000
      [] unit = "kcal/mol" -> 4184
      [] unit = "nm" -> 10
      [] unit = "angstrom" -> 1
      [] unit = "g/mol" -> 1000
      [] unit = "0.001 amu" -> 1

\* The quantity q in the smallest unit of its dimension.
Magnitude(q) == q.value * UnitScale(q.unit)

\* The constructor applied the force field and kept the typed sites.
ForceFieldApplied ==
    pc = "built" /\ ~IsNone(args.force_field) /\ ~args.remove_hydrogens

TypedSites == self.gmso_system.sites

\* C11: after the force field was applied, with auto_scale the reference
\* energy, length and mass are the largest epsilon, sigma and mass of the
\* sites; without auto_scale they are 1 in the unit of the first site's
\* epsilon, 1 in the unit of the first site's sigma, and 1 g/mol.
C11_ReferenceValuesRescaled ==
    ForceFieldApplied =>
        IF args.auto_scale
        THEN /\ \E i \in DOMAIN TypedSites :
                   Magnitude(reference(self, "energy"))
                     = Magnitude(TypedSites[i].atom_type.epsilon)
             /\ \A i \in DOMAIN TypedSites :
                   Magnitude(TypedSites[i].atom_type.epsilon)
                     <= Magnitude(reference(self, "energy"))
             /\ \E i \in DOMAIN TypedSites :
                   Magnitude(reference(self, "length"))
                     = Magnitude(TypedSites[i].atom_type.sigma)
             /\ \A i \in DOMAIN TypedSites :
                   Magnitude(TypedSites[i].atom_type.sigma)
                     <= Magnitude(reference(self, "length"))
             /\ \E i \in DOMAIN TypedSites :
                   Magnitude(reference(self, "mass")) = TypedSites[i].mass
             /\ \A i \in DOMAIN TypedSites :
                   TypedSites[i].mass <= Magnitude(reference(self, "mass"))
        ELSE /\ reference(self, "energy")
                  = [value |-> 1, unit |-> TypedSites[1].atom_type.epsilon.unit]
             /\ reference(self, "length")
                  = [value |-> 1, unit |-> TypedSites[1].atom_type.sigma.unit]
             /\ reference(self, "mass") = [value |-> 1, unit |-> "g/mol"]

(***************************************************************************)
(* Claims about _calculate_L.                                              *)
(***************************************************************************)
CalculateLCalled == pc = "called" /\ args.call = "_calculate_L"

\* mass / density in cm^3, the mass taken from the sites of the system.
VolumeInCm3(s) ==
    QDiv(QMul(Q(TotalMass(s.gmso_system), 1000, 0), Q(166054, 1, -29)), s.density)

\* A length in nm as a length in cm, for a plain number or a square root
\* (given as the number under the root).
NmAsCm(L) == QMul(L.rad, QPow(Q(1, 1, -7), L.deg))

\* C12: with one fixed length F (cm), the L that _calculate_L returns (nm)
\* satisfies L * L * F = mass / density; with two fixed lengths F1, F2 it
\* satisfies L * F1 * F2 = mass / density.
C12_CalculateLSolves ==
    (CalculateLCalled /\ ~IsNone(args.fixed_L)) =>
        IF Len(args.fixed_L.vals) = 1
        THEN /\ args.returned.deg = 2
             /\ QMul(NmAsCm(args.returned), args.fixed_L.vals[1].rad)
                  = VolumeInCm3(self)
        ELSE /\ args.returned.deg = 1
             /\ QMul(NmAsCm(args.returned),
                     QMul(args.fixed_L.vals[1].rad, args.fixed_L.vals[2].rad))
                  = VolumeInCm3(self)

\* C12 witness: _calculate_L was called with the single fixed length 0.5 nm
\* on a system of three molecules and returned a square root.
C12_Witness ==
    /\ CalculateLCalled
    /\ args.fixed_L = [vals |-> <<Float(Q(5, 1, -8))>>]
    /\ n_molecules(self) = 3
    /\ args.returned.deg = 2

(***************************************************************************)
(* Claims about the force field registered for each molecule.              *)
(***************************************************************************)
\* The number of molecules an item of molecules brings.
ItemSize(item) == IF item.kind = "Compound" THEN 1 ELSE Len(item.molecules)

\* The molecules of all_molecules the items before item k brought.
MoleculesBefore(k) ==
    SumSeq([i \in 1..(k - 1) |-> ItemSize(args.molecules[i])])

\* The item of molecules that brought molecule j of all_molecules.
ItemOf(j) ==
    CHOOSE k \in DOMAIN args.molecules :
       MoleculesBefore(k) < j /\ j <= MoleculesBefore(k) + ItemSize(args.molecules[k])

\* The force field the item k is to be typed with: its own, or the entry of
\* the force_field list for type k - 1.
ExpectedForceField(k) ==
    IF ~IsNone(OwnForceField(args.molecules[k]))
    THEN args.molecules[k].force_field.xml
    ELSE args.force_field.list[FFIndex(k - 1, args.force_field.list) + 1].gmso_ff

ConstructedWithForceField == pc = "built" /\ ~IsNone(args.force_field)

\* C13: in a System constructed with force_field every molecule has a force
\* field registered under its name: its item's own, else force_field[i] for
\* type index i below len(force_field), else force_field[0]; molecules of
\* different items have different names.
C13_ForceFieldPerType ==
    ConstructedWithForceField =>
        /\ \A j \in DOMAIN self.all_molecules :
              /\ self.all_molecules[j].name \in DOMAIN self.gmso_forcefields_dict
              /\ self.gmso_forcefields_dict[self.all_molecules[j].name]
                   = ExpectedForceField(ItemOf(j))
        /\ \A j1, j2 \in DOMAIN self.all_molecules :
              ItemOf(j1) # ItemOf(j2)
                 => self.all_molecules[j1].name # self.all_molecules[j2].name

(***************************************************************************)
(* Claims about the charges after construction.                            *)
(***************************************************************************)
\* C14: a System constructed with remove_charges = True has charge zero on
\* every site, whatever scale_charges is.
C14_ChargesRemoved ==
    (pc = "built" /\ args.remove_charges) =>
        \A i \in DOMAIN self.gmso_system.sites : self.gmso_system.sites[i].charge = 0

\* C15: the constructor builds, converts, applies the force field (removing
\* or scaling the charges) and only then removes the hydrogens; a System
\* constructed with force_field, scale_charges = True and
\* remove_hydrogens = True ends with net charge zero.
C15_ScaledThenStripped ==
    (pc = "built" /\ ~IsNone(args.force_field) /\ args.scale_charges
       /\ args.remove_hydrogens) =>
        net_charge(self.gmso_system) = 0

(***************************************************************************)
(* Claims about what the reference values are left as.                     *)
(***************************************************************************)
\* C16: when assigning reference_values raises (a key is missing or a value
\* fails validation), the reference values are exactly what they were before
\* the assignment.
C16_NoPartialUpdate ==
    (SetReferenceValuesCalled /\ raised # "none") =>
        self.reference_values = before.reference_values

(***************************************************************************)
(* Two Systems in one process.  Each is constructed without base_units, so *)
(* its _reference_values is the default object of its class's __init__;    *)
(* the reference setters and _apply_forcefield write into that object.     *)
(***************************************************************************)
Instances == {"A", "B"}

\* Pack(molecules, density, force_field, auto_scale) and
\* Lattice(molecules, density, x, y, n, force_field, auto_scale), on two
\* beads, base_units not given.
InstanceArgs ==
    { [DefaultArgs EXCEPT !.class = c, !.force_field = ffs, !.auto_scale = sc,
                          !.molecules = <<TypedItem(NoneValue), TypedItem(NoneValue)>>] :
        c \in {"Pack", "Lattice"},
        ffs \in { NoneValue, [list |-> <<[gmso_ff |-> GmsoForceField("gaff", 2, 3)]>>] },
        sc \in BOOLEAN }

\* The dictionaries assigned to reference_values: every value is 2 of its
\* own unit or 2 seconds.
InstanceDicts ==
    { d \in RefDicts : \A k \in DOMAIN d : d[k] \in RefInputs(k) /\ d[k].value = 2 }

\* system.reference_values of instance j, None while j is not constructed.
ReferenceValuesOf(j) ==
    IF pc[j] \in {"built", "called"}
    THEN defaults[self[j].reference_values.ref]
    ELSE NoneValue

ReferenceValuesOfAll == [j \in Instances |-> ReferenceValuesOf(j)]

InitInstances ==
    /\ pc = [i \in Instances |-> "new"]
    /\ raised = "none"
    /\ warned = FALSE
    /\ self = [i \in Instances |-> NoneValue]
    /\ before = [i \in Instances |-> NoneValue]
    /\ args = [call |-> "none", on |-> "none"]
    /\ defaults = DefaultBaseUnits

\* self._reference_values = base_units: the instance holds the object, and
\* what the constructor wrote went into the object.
InstanceConstructed(i, class, r) ==
    /\ self' = [self EXCEPT ![i] = [r.self EXCEPT !.reference_values = [ref |-> class]]]
    /\ defaults' = [defaults EXCEPT ![class] = r.self.reference_values]
    /\ pc' = [pc EXCEPT ![i] = IF r.raised = "none" THEN "built" ELSE "failed"]
    /\ raised' = r.raised
    /\ warned' = r.warned

ConstructInstance ==
    \E i \in Instances, a \in InstanceArgs :
        /\ pc[i] = "new"
        /\ InstanceConstructed(i, a.class,
               Constructor([a EXCEPT !.base_units = defaults[a.class]]))
        /\ before' = ReferenceValuesOfAll
        /\ args' = [call |-> "__init__", on |-> i]

InstanceReferencesSet(i, r) ==
    /\ defaults' = [defaults EXCEPT ![self[i].reference_values.ref] = r.reference_values]
    /\ raised' = r.raised
    /\ pc' = [pc EXCEPT ![i] = "called"]

SetInstanceReferences ==
    \E i \in Instances, d \in InstanceDicts :
        /\ pc[i] = "built"
        /\ InstanceReferencesSet(i,
               reference_values_setter([reference_values |-> ReferenceValuesOf(i)], d))
        /\ before' = ReferenceValuesOfAll
        /\ args' = [call |-> "reference_values", on |-> i]
        /\ UNCHANGED <<self, warned>>

NextInstances == ConstructInstance \/ SetInstanceReferences

SpecInstances == InitInstances /\ [][NextInstances]_vars

\* C17: constructing or assigning the reference values of one System never
\* changes the reference_values of another System that exists, both made
\* without base_units.
C17_InstancesIndependent ==
    \A j \in Instances :
        (pc[j] \in {"built", "called"} /\ args.on \in Instances \ {j}) =>
            ReferenceValuesOf(j) = before[j]

====
